---- MODULE Spec2Model ----
(***************************************************************************)
(* Model of the fastanvil map renderer (render.rs) and of the cross-format *)
(* SectionTower (complete/section_tower.rs).                               *)
(*                                                                         *)
(* Four specifications share the module, one per part of the program:      *)
(*   SpecTower   SectionTower::block / biome and SectionTowerBlockIter     *)
(*   SpecDrill   TopShadeRenderer::render of one column, drill_for_colour, *)
(*               water_depth, a_over_b_colour                              *)
(*   SpecRegion  render_region with its one-row neighbour cache            *)
(*   SpecShade   top_shade_colour as a pure function                       *)
(***************************************************************************)
EXTENDS Integers, Sequences, FiniteSets

VARIABLES
    \* ---- SectionTower (section_tower.rs) ----
    tower,      \* [y_min, y_max, nsections]: the fields of one SectionTower
    query,      \* the last block/biome call: [op, x, y, z, res] or NoCall
    iter,       \* SectionTowerBlockIter: [section_index_current, pos] or NoCall
    yielded,    \* the items next() has returned so far, in order
    lastNext,   \* what the last call of next() returned
    \* ---- one column of TopShadeRenderer::render (render.rs) ----
    column,     \* chunk.block(x, y, z) for the column: y -> block kind
    y_min,      \* chunk.y_range().start
    air_height, \* chunk.surface_height(x, z, mode)
    pc,         \* position inside render / drill_for_colour
    y,          \* drill_for_colour: let mut y
    colour,     \* drill_for_colour: let mut colour
    layers,     \* log of the calls of a_over_b_colour made by the drill
    depths,     \* log of the calls of water_depth made by the drill
    pixel,      \* render: what is stored in data[z * 16 + x]
    shadeCtx,   \* render: [z, north, north_air_height] used for the pixel
    \* ---- render_region (render.rs) ----
    dim,        \* the Dimension: which regions and chunks exist
    rpc,        \* position inside render_region
    cache,      \* let mut cache: [Option<C>; 32]
    map,        \* RegionMap.data
    rz,         \* loop variable z
    rx,         \* loop variable x
    rendered,   \* the last call renderer.render(&chunk, north)
    \* ---- top_shade_colour as a pure function ----
    shadeCall   \* the last call: [colour, height, shade_height, res] or NoCall

towerVars  == <<tower, query, iter, yielded, lastNext>>
drillVars  == <<column, y_min, air_height, pc, y, colour, layers, depths, pixel, shadeCtx>>
regionVars == <<dim, rpc, cache, map, rz, rx, rendered>>
shadeVars  == <<shadeCall>>
vars == <<towerVars, drillVars, regionVars, shadeVars>>

NoCall == [call |-> "none"]   \* no call made yet (record-valued variables)
NotYet == <<"not yet">>       \* no value yet (tuple-valued variables)

(***************************************************************************)
(* f32 arithmetic (IEEE 754 binary32, round to nearest even) as used by    *)
(* a_over_b_colour.  A finite value is <<m, e>> = m * 2^e with m = 0 or    *)
(* 2^23 <= m < 2^24; NaN is its own value.  Only the non-negative, normal  *)
(* range occurs: the operands are squares of bytes divided by 65025.       *)
(***************************************************************************)
F32NaN  == <<-1, 0>>
F32Zero == <<0, 0>>

RECURSIVE BitLenLow(_)
BitLenLow(n) == IF n = 0 THEN 0 ELSE 1 + BitLenLow(n \div 2)

\* the number of significant bits of 0 < n < 2^31
BitLen(n) ==
    IF n < 16777216 THEN BitLenLow(n)
    ELSE IF n < 33554432 THEN 25
    ELSE IF n < 67108864 THEN 26
    ELSE IF n < 134217728 THEN 27
    ELSE IF n < 268435456 THEN 28
    ELSE IF n < 536870912 THEN 29
    ELSE IF n < 1073741824 THEN 30
    ELSE 31

\* (D + s) * 2^E rounded to 24 significant bits, ties to even; 0 < s < 1 when
\* sticky, s = 0 otherwise.
F32Round(D, E, sticky) ==
    LET bits == BitLen(D) IN
    IF bits <= 24
    THEN <<D * 2^(24 - bits), E - (24 - bits)>>
    ELSE LET k    == bits - 24
             mant == D \div 2^k
             rem  == D % 2^k
             half == 2^(k - 1)
             up   == \/ rem > half
                     \/ rem = half /\ (sticky \/ mant % 2 = 1)
             m    == IF up THEN mant + 1 ELSE mant
         IN  IF m = 2^24 THEN <<2^23, E + k + 1>> ELSE <<m, E + k>>

\* `n as f32` for an integer 0 <= n < 2^24 (exact)
F32FromInt(n) == IF n = 0 THEN F32Zero ELSE F32Round(n, 0, FALSE)

F32One == F32FromInt(1)

F32Mul(a, b) ==
    IF a = F32NaN \/ b = F32NaN THEN F32NaN
    ELSE IF a[1] = 0 \/ b[1] = 0 THEN F32Zero
    ELSE LET a1 == a[1] \div 4096   a0 == a[1] % 4096
             b1 == b[1] \div 4096   b0 == b[1] % 4096
             t0 == a0 * b0
             t1 == a1 * b0 + b1 * a0
             t2 == a1 * b1
             low == (t1 % 4096) * 4096 + t0
             hi  == t2 + (t1 \div 4096) + (low \div 2^24)
             lo  == low % 2^24
         IN  F32Round(hi * 4 + (lo \div 2^22), a[2] + b[2] + 22, lo % 2^22 # 0)

\* six quotient bits at a time: r < d < 2^24 keeps r * 64 below 2^30
RECURSIVE F32DivBits(_, _, _, _)
F32DivBits(q, r, d, n) ==
    IF n = 0 THEN <<q, r>>
    ELSE F32DivBits(q * 64 + ((r * 64) \div d), (r * 64) % d, d, n - 1)

F32Div(a, b) ==
    IF a = F32NaN \/ b = F32NaN THEN F32NaN
    ELSE IF b[1] = 0 THEN F32NaN    \* 0.0 / 0.0; x / 0.0 with x > 0 does not occur
    ELSE IF a[1] = 0 THEN F32Zero
    ELSE LET s24 == F32DivBits(a[1] \div b[1], a[1] % b[1], b[1], 4)
             q26 == s24[1] * 4 + ((s24[2] * 4) \div b[1])
             r26 == (s24[2] * 4) % b[1]
         IN  F32Round(q26, a[2] - b[2] - 26, r26 # 0)

\* a + b for a, b >= 0
F32Add(a, b) ==
    IF a = F32NaN \/ b = F32NaN THEN F32NaN
    ELSE IF a[1] = 0 THEN b
    ELSE IF b[1] = 0 THEN a
    ELSE LET big   == IF a[2] >= b[2] THEN a ELSE b
             small == IF a[2] >= b[2] THEN b ELSE a
             d     == big[2] - small[2]
             M2    == IF d >= 27 THEN 0 ELSE (small[1] * 4) \div 2^d
             st    == IF d >= 27 THEN TRUE ELSE (small[1] * 4) % 2^d # 0
         IN  F32Round(big[1] * 4 + M2, big[2] - 2, st)

\* a - b for a >= b >= 0
F32Sub(a, b) ==
    IF a = F32NaN \/ b = F32NaN THEN F32NaN
    ELSE IF b[1] = 0 THEN a
    ELSE LET d  == a[2] - b[2]
             M2 == IF d >= 28 THEN 0 ELSE (b[1] * 8) \div 2^d
             st == IF d >= 28 THEN TRUE ELSE (b[1] * 8) % 2^d # 0
             D  == a[1] * 8 - M2 - (IF st THEN 1 ELSE 0)
         IN  IF D = 0 THEN F32Zero ELSE F32Round(D, a[2] - 3, st)

\* digit-by-digit square root of A * 4^13, A < 2^26 given as 13 bit pairs
RECURSIVE F32SqrtBits(_, _, _, _)
F32SqrtBits(A, i, root, rem) ==
    IF i > 26 THEN <<root, rem>>
    ELSE LET pair  == IF i <= 13 THEN (A \div 4^(13 - i)) % 4 ELSE 0
             r4    == rem * 4 + pair
             trial == 4 * root + 1
         IN  IF r4 >= trial
             THEN F32SqrtBits(A, i + 1, 2 * root + 1, r4 - trial)
             ELSE F32SqrtBits(A, i + 1, 2 * root, r4)

F32Sqrt(a) ==
    IF a = F32NaN THEN F32NaN
    ELSE IF a[1] = 0 THEN F32Zero
    ELSE LET odd == a[2] % 2 # 0
             A   == IF odd THEN a[1] * 2 ELSE a[1]
             e   == IF odd THEN a[2] - 1 ELSE a[2]
             s   == F32SqrtBits(A, 1, 0, 0)
         IN  F32Round(s[1], (e \div 2) - 13, s[2] # 0)

\* `x as u8`: truncates, saturates, and takes NaN to 0
F32AsU8(a) ==
    IF a = F32NaN \/ a[1] = 0 THEN 0
    ELSE IF a[2] >= 0 THEN 255
    ELSE IF a[2] < -24 THEN 0
    ELSE LET n == a[1] \div 2^(-a[2]) IN IF n > 255 THEN 255 ELSE n

(***************************************************************************)
(* Colours: Rgba = [u8; 4] is <<r, g, b, a>>; colour[4] is the code's      *)
(* colour[3].                                                              *)
(***************************************************************************)
Transparent == <<0, 0, 0, 0>>

linear(c) == F32Div(F32FromInt(c * c), F32FromInt(255 * 255))

a_out_of(aa, ab) == F32Add(linear(aa), F32Mul(linear(ab), F32Sub(F32One, linear(aa))))

over_component(ca, aa, cb, ab) ==
    LET lca == linear(ca)
        lcb == linear(cb)
        laa == linear(aa)
        lab == linear(ab)
        a_out == F32Add(laa, F32Mul(lab, F32Sub(F32One, laa)))
        linear_out == F32Div(F32Add(F32Mul(lca, laa),
                                    F32Mul(F32Mul(lcb, lab), F32Sub(F32One, laa))),
                             a_out)
    IN  F32AsU8(F32Sqrt(F32Mul(F32Mul(linear_out, F32FromInt(255)), F32FromInt(255))))

over_alpha(aa, ab) ==
    LET laa == linear(aa)
        lab == linear(ab)
        a_out == F32Add(laa, F32Mul(lab, F32Sub(F32One, laa)))
    IN  F32AsU8(F32Sqrt(F32Mul(F32Mul(a_out, F32FromInt(255)), F32FromInt(255))))

a_over_b_colour(c, below) ==
    << over_component(c[1], c[4], below[1], below[4]),
       over_component(c[2], c[4], below[2], below[4]),
       over_component(c[3], c[4], below[3], below[4]),
       over_alpha(c[4], below[4]) >>

\* the divisor a_out of over_component is 0.0 for this pair of colours
DividesByZero(c, below) == a_out_of(c[4], below[4]) = F32Zero

(***************************************************************************)
(* Blocks, the palette and the chunk column.                               *)
(***************************************************************************)
None == "None"     \* Option::None of chunk.block
Absent == <<>>     \* Option::None where Some(v) is a non-empty tuple

ColumnHeight == 3  \* blocks in the chunk's y_range (a multiple of 16 in the game)
MaxDepthGap  == 1  \* how far surface_height may lie below y_range.start

BlockNames == {"minecraft:air", "minecraft:water", "minecraft:stone", "minecraft:barrier"}

is_watery(block) ==
    block \in {"minecraft:water", "minecraft:bubble_column", "minecraft:kelp",
               "minecraft:kelp_plant", "minecraft:sea_grass", "minecraft:tall_seagrass"}

is_airy(block) == block \in {"minecraft:air", "minecraft:cave_air"}

\* Palette::pick for the palette of the model: an opaque colour, a water
\* colour and a colour whose alpha is 0.
PalettePick(block) ==
    CASE block = "minecraft:stone"   -> <<128, 128, 128, 255>>
      [] block = "minecraft:barrier" -> <<10, 20, 30, 0>>
      [] is_watery(block)            -> <<64, 64, 255, 255>>
      [] OTHER                       -> <<0, 0, 0, 0>>

Min(a, b) == IF a < b THEN a ELSE b
Max(a, b) == IF a > b THEN a ELSE b

water_depth_to_alpha(depth) == Min(180 + 2 * depth, 250)

\* the while loop of water_depth, `depth` being its accumulator
RECURSIVE water_depth_loop(_, _, _, _)
water_depth_loop(col, yy, ymin, depth) ==
    IF yy > ymin
    THEN IF col[yy] = None THEN depth
         ELSE IF is_watery(col[yy]) THEN water_depth_loop(col, yy - 1, ymin, depth + 1)
         ELSE depth
    ELSE depth

water_depth(col, yy, ymin) == water_depth_loop(col, yy, ymin, 1)

\* a bug for comparison: the Less and Greater arms exchanged
top_shade_colour_swapped(c, height, shade_height) ==
    LET shade == IF height < shade_height THEN 255
                 ELSE IF height = shade_height THEN 220
                 ELSE 180
    IN  << ((c[1] * shade) \div 255) % 256,
           ((c[2] * shade) \div 255) % 256,
           ((c[3] * shade) \div 255) % 256,
           c[4] >>

top_shade_colour(c, height, shade_height) ==
    LET shade == IF height < shade_height THEN 180
                 ELSE IF height = shade_height THEN 220
                 ELSE 255
    IN  << ((c[1] * shade) \div 255) % 256,
           ((c[2] * shade) \div 255) % 256,
           ((c[3] * shade) \div 255) % 256,
           c[4] >>

(***************************************************************************)
(* TopShadeRenderer::render for one column (x, z) of a chunk, with         *)
(* drill_for_colour unrolled one loop iteration per action.                *)
(***************************************************************************)
YMins == {-2, 0}

Heights(ymin) == (ymin - MaxDepthGap)..(ymin + ColumnHeight)

InitDrill ==
    /\ y_min \in YMins
    /\ column \in [y_min..(y_min + ColumnHeight - 1) -> BlockNames \cup {None}]
    /\ air_height \in Heights(y_min)
    /\ pc = "start"
    /\ y = 0
    /\ colour = Transparent
    /\ layers = <<>>
    /\ depths = <<>>
    /\ pixel = NotYet
    /\ shadeCtx = NoCall

\* render, lines 35-38: the call of drill_for_colour and its first two lines
RenderColumn ==
    /\ pc = "start"
    /\ y' = Max(air_height - 1, y_min)
    /\ colour' = Transparent
    /\ pc' = "drill"
    /\ UNCHANGED <<column, y_min, air_height, layers, depths, pixel, shadeCtx>>
    /\ UNCHANGED <<towerVars, regionVars, shadeVars>>

LoopCond == colour[4] # 255 /\ y >= y_min

Layer(top, below, yy, ynext) ==
    [y |-> yy, block |-> column[yy], top |-> top, below |-> below, ynext |-> ynext,
     a_out_zero |-> DividesByZero(top, below)]

DrillAbsent ==
    /\ pc = "drill" /\ LoopCond
    /\ column[y] = None
    /\ pc' = "drilled"
    /\ UNCHANGED <<column, y_min, air_height, y, colour, layers, depths, pixel, shadeCtx>>
    /\ UNCHANGED <<towerVars, regionVars, shadeVars>>

DrillAiry ==
    /\ pc = "drill" /\ LoopCond
    /\ column[y] # None /\ is_airy(column[y])
    /\ y' = y - 1
    /\ UNCHANGED <<column, y_min, air_height, pc, colour, layers, depths, pixel, shadeCtx>>
    /\ UNCHANGED <<towerVars, regionVars, shadeVars>>

DrillWatery ==
    /\ pc = "drill" /\ LoopCond
    /\ column[y] # None /\ ~is_airy(column[y]) /\ is_watery(column[y])
    /\ LET depth == water_depth(column, y, y_min)
           alpha == water_depth_to_alpha(depth)
           block_colour == [PalettePick(column[y]) EXCEPT ![4] = alpha % 256]
       IN  /\ colour' = a_over_b_colour(colour, block_colour)
           /\ y' = y - depth
           /\ layers' = Append(layers, Layer(colour, block_colour, y, y - depth))
           /\ depths' = Append(depths, [y |-> y, depth |-> depth])
    /\ UNCHANGED <<column, y_min, air_height, pc, pixel, shadeCtx>>
    /\ UNCHANGED <<towerVars, regionVars, shadeVars>>

DrillOther ==
    /\ pc = "drill" /\ LoopCond
    /\ column[y] # None /\ ~is_airy(column[y]) /\ ~is_watery(column[y])
    /\ LET block_colour == PalettePick(column[y])
       IN  /\ colour' = a_over_b_colour(colour, block_colour)
           /\ layers' = Append(layers, Layer(colour, block_colour, y, y - 1))
    /\ y' = y - 1
    /\ UNCHANGED <<column, y_min, air_height, pc, depths, pixel, shadeCtx>>
    /\ UNCHANGED <<towerVars, regionVars, shadeVars>>

DrillExit ==
    /\ pc = "drill" /\ ~LoopCond
    /\ pc' = "drilled"
    /\ UNCHANGED <<column, y_min, air_height, y, colour, layers, depths, pixel, shadeCtx>>
    /\ UNCHANGED <<towerVars, regionVars, shadeVars>>

\* render, lines 40-49.  z, the north chunk and the surface heights of the
\* neighbouring columns are inputs of the step.
ShadeColumn ==
    /\ pc = "drilled"
    /\ \E z \in {0, 1}, north \in {Absent} \cup {<<h>> : h \in Heights(y_min)},
          prev \in Heights(y_min) :
          LET block_height == Max(air_height - 1, y_min)
              north_air_height ==
                  IF z = 0
                  THEN IF north # Absent THEN north[1] ELSE block_height
                  ELSE prev
          IN  /\ pixel' = top_shade_colour(colour, air_height, north_air_height)
              /\ shadeCtx' = [z |-> z, north |-> IF z = 0 THEN north ELSE Absent,
                              north_air_height |-> north_air_height]
    /\ pc' = "done"
    /\ UNCHANGED <<column, y_min, air_height, y, colour, layers, depths>>
    /\ UNCHANGED <<towerVars, regionVars, shadeVars>>

(***************************************************************************)
(* SectionTower.  A Section is the collaborator of complete/section.rs:    *)
(* 16 x 16 x 16 blocks, queried by local coordinates, "absent" outside its *)
(* domain, and iterated in a fixed order.                                  *)
(***************************************************************************)
SectionHeight == 16
MaxSections   == 2   \* sections of the largest tower
QueryMargin   == 18  \* how far outside y_range the queried y may lie
SectionBlocks == 3   \* items of one Section::iter_blocks() (16 * 16 * 16 in the game)

\* 2^64 does not fit the checker's integers; 2^30 stands for it, far above
\* every index and offset that occurs.
UsizeModulus == 2^30

\* `n as usize` of an isize
AsUsize(n) == IF n >= 0 THEN n ELSE n + UsizeModulus

\* isize division: truncates toward zero
TruncDiv(a, b) == IF a >= 0 THEN a \div b ELSE -((-a) \div b)

InDomain(x, ly, z) ==
    /\ x \in 0..(SectionHeight - 1)
    /\ ly \in 0..(SectionHeight - 1)
    /\ z \in 0..(SectionHeight - 1)

\* Section::block of the section at index i
SectionBlock(i, x, ly, z) ==
    IF InDomain(x, ly, z) THEN <<"block", i, x, ly, z>> ELSE Absent

\* Section::biome of the section at index i
SectionBiome(i, x, ly, z) ==
    IF InDomain(x, ly, z) THEN <<"biome", i, x, ly, z>> ELSE Absent

\* a bug for comparison: the tower's y_min is not subtracted
y_to_index_no_offset(t, yy) == AsUsize(TruncDiv(yy, SectionHeight))

y_to_index(t, yy) == AsUsize(TruncDiv(yy - t.y_min, SectionHeight))

Panic == <<"panic">>   \* Option::unwrap on None

TowerBlock(t, x, yy, z) ==
    LET section_index == y_to_index(t, yy) IN
    IF section_index >= t.nsections THEN Panic
    ELSE LET section_y == yy - (SectionHeight * section_index + t.y_min)
         IN  SectionBlock(section_index, x, AsUsize(section_y), z)

TowerBiome(t, x, yy, z) ==
    LET section_index == y_to_index(t, yy) IN
    IF section_index >= t.nsections THEN Panic
    ELSE LET section_y == yy - (SectionHeight * section_index + t.y_min)
         IN  SectionBiome(section_index, x, AsUsize(section_y), z)

\* SectionBlockIter::next of section i after pos items: the item and the new pos
SectionIterNext(i, pos) ==
    IF pos < SectionBlocks
    THEN [item |-> <<"block", i, pos + 1>>, pos |-> pos + 1]
    ELSE [item |-> Absent, pos |-> pos]

\* a bug for comparison: after the last section the iterator starts over
TowerIterNextWrapping(t, it) ==
    LET cur == SectionIterNext(it.section_index_current, it.pos) IN
    IF cur.item # Absent
    THEN [iter |-> [it EXCEPT !.pos = cur.pos], item |-> cur.item]
    ELSE LET idx == (it.section_index_current + 1) % t.nsections
             nxt == SectionIterNext(idx, 0)
         IN  [iter |-> [section_index_current |-> idx, pos |-> nxt.pos],
              item |-> nxt.item]

\* SectionTowerBlockIter::next: the iterator after the call and what it returns
TowerIterNext(t, it) ==
    LET cur == SectionIterNext(it.section_index_current, it.pos) IN
    IF cur.item # Absent
    THEN [iter |-> [it EXCEPT !.pos = cur.pos], item |-> cur.item]
    ELSE IF it.section_index_current >= t.nsections - 1
         THEN [iter |-> [it EXCEPT !.pos = cur.pos], item |-> Absent]
         ELSE LET idx == it.section_index_current + 1
                  nxt == SectionIterNext(idx, 0)
              IN  [iter |-> [section_index_current |-> idx, pos |-> nxt.pos],
                   item |-> nxt.item]

TowerYMins == {-64, -16, 0}

QueryXZ == {0, SectionHeight - 1}

QueryYs(t) == (t.y_min - QueryMargin)..(t.y_max + QueryMargin)

InitTower ==
    /\ \E ymin \in TowerYMins, n \in 1..MaxSections :
          tower = [y_min |-> ymin, y_max |-> ymin + SectionHeight * n, nsections |-> n]
    /\ query = NoCall
    /\ iter = NoCall
    /\ yielded = <<>>
    /\ lastNext = NotYet

BlockCall ==
    /\ query = NoCall
    /\ \E x \in QueryXZ, z \in QueryXZ, yy \in QueryYs(tower) :
          query' = [op |-> "block", x |-> x, y |-> yy, z |-> z,
                    res |-> TowerBlock(tower, x, yy, z)]
    /\ UNCHANGED <<tower, iter, yielded, lastNext>>
    /\ UNCHANGED <<drillVars, regionVars, shadeVars>>

BiomeCall ==
    /\ query = NoCall
    /\ \E x \in QueryXZ, z \in QueryXZ, yy \in QueryYs(tower) :
          query' = [op |-> "biome", x |-> x, y |-> yy, z |-> z,
                    res |-> TowerBiome(tower, x, yy, z)]
    /\ UNCHANGED <<tower, iter, yielded, lastNext>>
    /\ UNCHANGED <<drillVars, regionVars, shadeVars>>

\* iter_blocks() / SectionTowerBlockIter::new
IterBlocks ==
    /\ tower.nsections >= 1
    /\ iter' = [section_index_current |-> 0, pos |-> 0]
    /\ yielded' = <<>>
    /\ lastNext' = NotYet
    /\ UNCHANGED <<tower, query>>
    /\ UNCHANGED <<drillVars, regionVars, shadeVars>>

IterNext ==
    /\ iter # NoCall
    /\ LET r == TowerIterNext(tower, iter)
       IN  /\ iter' = r.iter
           /\ lastNext' = r.item
           /\ yielded' = IF r.item = Absent THEN yielded ELSE Append(yielded, r.item)
    /\ UNCHANGED <<tower, query>>
    /\ UNCHANGED <<drillVars, regionVars, shadeVars>>

(***************************************************************************)
(* RegionMap and render_region.  A region is RegionW x RegionW chunks and  *)
(* a chunk's raster has ChunkLen pixels (32 and 16 * 16 in the code).      *)
(***************************************************************************)
RegionW  == 2
ChunkLen == 2

Coords == 0..(RegionW - 1)

MapLen == ChunkLen * RegionW * RegionW

\* region.chunk(x, z) of the target region
RegionChunk(d, x, z) == IF d.target /\ <<x, z>> \in d.present THEN <<"chunk", 0, x, z>> ELSE Absent

\* r.chunk(x, 31) of the region north of the target
NorthChunk(d, x) == IF d.north /\ x \in d.northRow THEN <<"chunk", -1, x, RegionW - 1>> ELSE Absent

\* TopShadeRenderer::render as a function of its arguments: pixel i of the
\* raster of `chunk` rendered with `north`
RenderOut(chunk, north) == [i \in 0..(ChunkLen - 1) |-> <<chunk, north, i>>]

\* a bug for comparison: x and z exchanged
ChunkBeginSwapped(x, z) == (x * RegionW + z) * ChunkLen

\* chunk_mut: let begin = (z.0 * 32 + x.0) as usize * len
ChunkBegin(x, z) == (z * RegionW + x) * ChunkLen

\* data[..].clone_from_slice(&d) on map.chunk_mut(x, z)
WriteChunk(m, x, z, d) ==
    LET begin == ChunkBegin(x, z) IN
    [i \in DOMAIN m |-> IF begin <= i /\ i < begin + ChunkLen THEN d[i - begin] ELSE m[i]]

Dimensions ==
    {[target |-> FALSE, present |-> {}, north |-> n, northRow |-> nr] :
        n \in {FALSE}, nr \in {{}}}
    \cup
    {[target |-> TRUE, present |-> p, north |-> FALSE, northRow |-> {}] :
        p \in SUBSET (Coords \X Coords)}
    \cup
    {[target |-> TRUE, present |-> p, north |-> TRUE, northRow |-> nr] :
        p \in SUBSET (Coords \X Coords), nr \in SUBSET Coords}

InitRegion ==
    /\ dim \in Dimensions
    /\ rpc = "start"
    /\ cache = [x \in Coords |-> Absent]
    /\ map = <<>>
    /\ rz = 0
    /\ rx = 0
    /\ rendered = NoCall

\* lines 232-237 when dimension.region(x, z) is None
RegionAbsent ==
    /\ rpc = "start" /\ ~dim.target
    /\ map' = [i \in 0..(MapLen - 1) |-> Transparent]
    /\ rpc' = "returned"
    /\ UNCHANGED <<dim, cache, rz, rx, rendered>>
    /\ UNCHANGED <<towerVars, drillVars, shadeVars>>

\* lines 232-247: the map, the region and the cache seeded from the north
RegionStart ==
    /\ rpc = "start" /\ dim.target
    /\ map' = [i \in 0..(MapLen - 1) |-> Transparent]
    /\ cache' = IF dim.north THEN [x \in Coords |-> NorthChunk(dim, x)]
                ELSE [x \in Coords |-> Absent]
    /\ rz' = 0
    /\ rx' = 0
    /\ rpc' = "loop"
    /\ UNCHANGED <<dim, rendered>>
    /\ UNCHANGED <<towerVars, drillVars, shadeVars>>

\* the loop variables after one iteration of `for z { for x { .. } }`
Advance ==
    /\ rx' = IF rx + 1 < RegionW THEN rx + 1 ELSE 0
    /\ rz' = IF rx + 1 < RegionW THEN rz ELSE rz + 1
    /\ rpc' = IF rx + 1 >= RegionW /\ rz + 1 >= RegionW THEN "returned" ELSE "loop"

\* one iteration, lines 251-272, region.chunk(x, z) being Some(chunk)
RenderChunk ==
    /\ rpc = "loop"
    /\ RegionChunk(dim, rx, rz) # Absent
    /\ LET chunk == RegionChunk(dim, rx, rz)
           north == cache[rx]
           res   == RenderOut(chunk, north)
       IN  /\ rendered' = [x |-> rx, z |-> rz, chunk |-> chunk, north |-> north]
           /\ cache' = [cache EXCEPT ![rx] = chunk]
           /\ map' = WriteChunk(map, rx, rz, res)
    /\ Advance
    /\ UNCHANGED dim
    /\ UNCHANGED <<towerVars, drillVars, shadeVars>>

\* one iteration, region.chunk(x, z) being None
SkipChunk ==
    /\ rpc = "loop"
    /\ RegionChunk(dim, rx, rz) = Absent
    /\ Advance
    /\ UNCHANGED <<dim, cache, map, rendered>>
    /\ UNCHANGED <<towerVars, drillVars, shadeVars>>

(***************************************************************************)
(* top_shade_colour called on its own.                                     *)
(***************************************************************************)
MaxShadeHeight == 1

ByteSamples == {0, 1, 2, 127, 128, 200, 254, 255}

ShadeHeights == (-MaxShadeHeight)..MaxShadeHeight

InitShade == shadeCall = NoCall

TopShadeCall ==
    /\ shadeCall = NoCall
    /\ \E r \in 0..255, g \in ByteSamples, b \in {1, 254}, a \in {0, 128, 255},
          h \in ShadeHeights, sh \in ShadeHeights :
           shadeCall' = [colour |-> <<r, g, b, a>>, height |-> h, shade_height |-> sh,
                         res |-> top_shade_colour(<<r, g, b, a>>, h, sh)]
    /\ UNCHANGED <<towerVars, drillVars, regionVars>>

(***************************************************************************)
(* The specifications.  Each runs one part and leaves the others idle.     *)
(***************************************************************************)
IdleTower ==
    /\ tower = None /\ query = NoCall /\ iter = NoCall
    /\ yielded = <<>> /\ lastNext = NotYet

IdleDrill ==
    /\ column = <<>> /\ y_min = 0 /\ air_height = 0 /\ pc = "idle" /\ y = 0
    /\ colour = Transparent /\ layers = <<>> /\ depths = <<>>
    /\ pixel = NotYet /\ shadeCtx = NoCall

IdleRegion ==
    /\ dim = None /\ rpc = "idle" /\ cache = <<>> /\ map = <<>>
    /\ rz = 0 /\ rx = 0 /\ rendered = NoCall

IdleShade == shadeCall = NoCall

TowerInit  == InitTower /\ IdleDrill /\ IdleRegion /\ IdleShade
DrillInit  == InitDrill /\ IdleTower /\ IdleRegion /\ IdleShade
RegionInit == InitRegion /\ IdleTower /\ IdleDrill /\ IdleShade
ShadeInit  == InitShade /\ IdleTower /\ IdleDrill /\ IdleRegion

NextTower == BlockCall \/ BiomeCall \/ IterBlocks \/ IterNext

NextDrill ==
    \/ RenderColumn
    \/ DrillAbsent
    \/ DrillAiry
    \/ DrillWatery
    \/ DrillOther
    \/ DrillExit
    \/ ShadeColumn

NextRegion == RegionAbsent \/ RegionStart \/ RenderChunk \/ SkipChunk

NextShade == TopShadeCall

SpecTower  == TowerInit /\ [][NextTower]_vars
SpecDrill  == DrillInit /\ [][NextDrill]_vars
SpecRegion == RegionInit /\ [][NextRegion]_vars
SpecShade  == ShadeInit /\ [][NextShade]_vars

(***************************************************************************)
(* Properties.                                                             *)
(***************************************************************************)

\* the chunk directly above (x, z): the same region's (x, z - 1), or the north
\* region's (x, 31) for z = 0
Above(d, x, z) == IF z >= 1 THEN RegionChunk(d, x, z - 1) ELSE NorthChunk(d, x)

\* C1: whenever render_region renders a present chunk at (x, z), the north
\* neighbour it reads from cache slot x is the chunk directly above it, and it
\* is absent exactly when that chunk is absent.
C1_NorthIsChunkDirectlyAbove ==
    rendered # NoCall => rendered.north = Above(dim, rendered.x, rendered.z)

\* the number of consecutive watery blocks at yy, yy - 1, ... down to ymin
RECURSIVE RunLength(_, _, _)
RunLength(col, yy, ymin) ==
    IF yy < ymin THEN 0
    ELSE IF col[yy] = None THEN 0
    ELSE IF ~is_watery(col[yy]) THEN 0
    ELSE 1 + RunLength(col, yy - 1, ymin)

\* C2: every call of water_depth on a watery block returns the length of the
\* run of watery blocks that starts there: at least 1, never more than the run.
C2_WaterDepthIsRunLength ==
    \A i \in DOMAIN depths :
        /\ depths[i].depth >= 1
        /\ depths[i].depth = RunLength(column, depths[i].y, y_min)

\* C3: a run of n watery blocks directly above an opaque block is composited
\* as one layer of alpha min(180 + 2n, 250), y then drops by exactly n, and the
\* block directly below the run is the next one composited.
C3_WaterRunIsOneLayer ==
    \A i \in DOMAIN layers :
        LET L == layers[i]
            n == RunLength(column, L.y, y_min)
        IN  (/\ is_watery(L.block)
             /\ L.y - n >= y_min
             /\ column[L.y - n] = "minecraft:stone")
            => /\ L.below[4] = Min(180 + 2 * n, 250)
               /\ L.ynext = L.y - n
               /\ i < Len(layers) => layers[i + 1].y = L.y - n
               /\ pc \in {"drilled", "done"} => i < Len(layers)

\* C4: for y inside y_range, block and biome return what the section covering
\* [y_min + 16 i, y_min + 16 i + 16) returns at the local offset
\* y - (y_min + 16 i), which lies in 0..15.
C4_TowerDelegatesToOwningSection ==
    (query # NoCall /\ tower.y_min <= query.y /\ query.y < tower.y_max)
    => \E i \in 0..(tower.nsections - 1) :
          LET base == tower.y_min + 16 * i IN
          /\ base <= query.y /\ query.y < base + 16
          /\ query.y - base \in 0..15
          /\ query.op = "block"
                => query.res = <<"block", i, query.x, query.y - base, query.z>>
          /\ query.op = "biome"
                => query.res = <<"biome", i, query.x, query.y - base, query.z>>

\* C4 witness: a tower with negative y_min queried at y_min + 16, which selects
\* section 1 at local offset 0
C4_Witness ==
    /\ query # NoCall
    /\ tower.y_min < 0
    /\ tower.nsections >= 2
    /\ query.y = tower.y_min + 16
    /\ query.op = "block"
    /\ query.res = <<"block", 1, query.x, 0, query.z>>

\* C5: for every y outside y_range, block and biome stop execution; they never
\* return a block, a biome or "absent".
C5_OutOfRangeStops ==
    (query # NoCall /\ (query.y < tower.y_min \/ query.y >= tower.y_max))
    => query.res = Panic

\* C6: no call of a_over_b_colour divides by a combined alpha of zero.
C6_NoDivisionByZeroAlpha ==
    \A i \in DOMAIN layers : ~layers[i].a_out_zero

\* C7: for a column of row z = 0 rendered without a north chunk, the stored
\* pixel is the drilled colour, whatever the surface height.
C7_NoNorthNoShadingChange ==
    (pc = "done" /\ shadeCtx.z = 0 /\ shadeCtx.north = Absent) => pixel = colour

\* the concatenation of the sections' own sequences, bottom to top
ExpectedBlocks(t) ==
    [k \in 1..(t.nsections * SectionBlocks) |->
        <<"block", (k - 1) \div SectionBlocks, ((k - 1) % SectionBlocks) + 1>>]

\* C8: the items next() returns are the sections' sequences concatenated in
\* section order; None comes only after all of them and nothing follows it.
C8_IterIsConcatenation ==
    iter # NoCall =>
        LET exp == ExpectedBlocks(tower) IN
        /\ Len(yielded) <= Len(exp)
        /\ \A k \in DOMAIN yielded : yielded[k] = exp[k]
        /\ lastNext = Absent => yielded = exp
        /\ (lastNext # Absent /\ lastNext # NotYet) => lastNext = yielded[Len(yielded)]

\* C8 witness: a tower of two or more sections iterated to its end
C8_Witness ==
    /\ iter # NoCall
    /\ tower.nsections >= 2
    /\ lastNext = Absent
    /\ Len(yielded) = tower.nsections * SectionBlocks

\* the chunk the cache slot x holds when row z is reached: the nearest present
\* chunk above in the column, else the north region's
RECURSIVE NearestAbove(_, _, _)
NearestAbove(d, x, z) ==
    IF z = 0 THEN NorthChunk(d, x)
    ELSE IF RegionChunk(d, x, z - 1) # Absent THEN RegionChunk(d, x, z - 1)
    ELSE NearestAbove(d, x, z - 1)

\* the loop has passed chunk (cx, cz)
Passed(cx, cz) ==
    \/ rpc = "returned"
    \/ rpc = "loop" /\ (cz < rz \/ (cz = rz /\ cx < rx))

\* C9: the map has one slice per chunk coordinate, at (cz * 32 + cx) * 256; the
\* slice of a rendered chunk is the renderer's output for it, every other slice
\* is all [0,0,0,0]; so no chunk writes outside its slice.
C9_MapSlices ==
    rpc \in {"loop", "returned"} =>
        /\ DOMAIN map = 0..(ChunkLen * RegionW * RegionW - 1)
        /\ \A cx \in Coords, cz \in Coords, i \in 0..(ChunkLen - 1) :
              map[(cz * RegionW + cx) * ChunkLen + i] =
                 IF RegionChunk(dim, cx, cz) # Absent /\ Passed(cx, cz)
                 THEN <<RegionChunk(dim, cx, cz), NearestAbove(dim, cx, cz), i>>
                 ELSE <<0, 0, 0, 0>>

\* C9 witness: render_region has returned for a region with a present chunk
\* next to a missing one
C9_Witness ==
    /\ rpc = "returned"
    /\ dim.target
    /\ <<1, 0>> \in dim.present
    /\ <<0, 0>> \notin dim.present
    /\ map[ChunkLen] = <<RegionChunk(dim, 1, 0), NearestAbove(dim, 1, 0), 0>>
    /\ map[0] = <<0, 0, 0, 0>>

\* C10: each RGB channel of top_shade_colour is floor(channel * shade / 255)
\* with shade 255, 220 or 180 for height >, = or < the comparison height; alpha
\* is returned as given and no channel increases.
C10_TopShade ==
    shadeCall # NoCall =>
        LET c  == shadeCall.colour
            r  == shadeCall.res
            sh == IF shadeCall.height > shadeCall.shade_height THEN 255
                  ELSE IF shadeCall.height = shadeCall.shade_height THEN 220
                  ELSE 180
        IN  /\ \A ch \in 1..3 :
                  /\ r[ch] * 255 <= c[ch] * sh
                  /\ c[ch] * sh < (r[ch] + 1) * 255
                  /\ r[ch] <= c[ch]
                  /\ shadeCall.height > shadeCall.shade_height => r[ch] = c[ch]
            /\ r[4] = c[4]

\* C10 witness: a colour darkened because the comparison height is greater
C10_Witness ==
    /\ shadeCall # NoCall
    /\ shadeCall.height < shadeCall.shade_height
    /\ shadeCall.colour = <<255, 200, 1, 128>>
    /\ shadeCall.res = <<180, 141, 0, 128>>

====
